---- MODULE Spec2Model ----
(***************************************************************************)
(* Model of m365_license_report.py: get_access_token, the pagination loop  *)
(* of fetch_users_with_licenses, export_to_csv and their sequencing in     *)
(* main.                                                                   *)
(*                                                                         *)
(* A string is a sequence of atoms.  The atoms "," (comma), "\"" (quote),  *)
(* "\r", "\n" and " " are the characters of that name; every other atom    *)
(* ("Doe", "A", "UserPrincipalName", ...) stands for a run of ordinary     *)
(* characters that the CSV dialect does not treat specially.               *)
(*                                                                         *)
(* A Python/JSON value is a record [t, v]: t is its type ("none", "str",   *)
(* "bool", "list"; "absent" for a key that is not in the JSON object) and  *)
(* v its payload.                                                          *)
(***************************************************************************)
EXTENDS Integers, Sequences, FiniteSets, TLC

\* Longest cursor chain the stub server delivers.
MaxPages == 2
\* Most elements in the `value` array of one page.
MaxPerPage == 2

VARIABLES
    pc,           \* position in main: "auth", "fetch" (calling the fetcher),
                  \* "loop" (at `while url:`), "export", "done", "failed"
    tokenResult,  \* the identity provider's response to the token request
    tokenCalls,   \* number of acquire_token_for_client calls made
    token,        \* main's `token`
    url,          \* fetch_users_with_licenses' `url`
    users,        \* fetch_users_with_licenses' `users`
    requests,     \* the GET requests issued so far, in order
    served,       \* the responses the server returned to them, in order
    file,         \* the file at the output path
    priorFile,    \* that file as the run found it
    error,        \* the exception that ended the run, if any
    exportCalls   \* number of export_to_csv calls made

vars == <<pc, tokenResult, tokenCalls, token, url, users, requests, served,
          file, priorFile, error, exportCalls>>

----------------------------------------------------------------------------
\* Python and JSON values

PyNone == [t |-> "none", v |-> <<>>]

PyStr(s) == [t |-> "str", v |-> s]

PyBool(b) == [t |-> "bool", v |-> IF b THEN <<"1">> ELSE <<"0">>]

PyList(l) == [t |-> "list", v |-> l]

\* A key the JSON object does not have.
Absent == [t |-> "absent", v |-> <<>>]

\* dict.get(key, default)
DictGet(d, key, default) == IF d[key].t = "absent" THEN default ELSE d[key]

\* Python truth value of None or a string, as tested by `while url:`
Truthy(x) == x.t = "str" /\ x.v # <<>>

\* sep.join(strs)
RECURSIVE Join(_, _)
Join(sep, strs) ==
    IF strs = <<>> THEN <<>>
    ELSE IF Len(strs) = 1 THEN strs[1]
    ELSE strs[1] \o sep \o Join(sep, Tail(strs))

----------------------------------------------------------------------------
\* fetch_users_with_licenses

GRAPH_API_ENDPOINT == <<"https://graph.microsoft.com/v1.0">>

StartUrl ==
    PyStr(GRAPH_API_ENDPOINT \o
          <<"/users?$select=id", ",", "displayName", ",", "userPrincipalName",
            ",", "assignedLicenses", ",", "accountEnabled">>)

\* Headers without the token
HeadersAnonymous(tok) == [Authorization |-> <<"Bearer", " ">>]

Headers(tok) == [Authorization |-> <<"Bearer", " ">> \o tok]

\* IsApiFailure as a test for a 4xx or 5xx status only
IsApiFailureFrom400(status) == status >= 400

\* response.status_code != 200
IsApiFailure(status) == status # 200

\* [lic["skuId"] for lic in user.get("assignedLicenses", [])]
LicenseSkus(user) ==
    LET lics == DictGet(user, "assignedLicenses", PyList(<<>>)).v
    IN  [i \in 1..Len(lics) |-> lics[i].skuId]

\* LicenseString testing the joined string instead of the list
LicenseStringIfJoined(license_skus) ==
    IF Join(<<",", " ">>, license_skus) # <<>>
    THEN Join(<<",", " ">>, license_skus)
    ELSE <<"None">>

\* ", ".join(license_skus) if license_skus else "None"
LicenseString(license_skus) ==
    IF license_skus # <<>> THEN Join(<<",", " ">>, license_skus)
    ELSE <<"None">>

\* the dict appended to `users` for one element of `value`
BuildRecord(user) ==
    [UserPrincipalName |-> DictGet(user, "userPrincipalName", PyNone),
     DisplayName       |-> DictGet(user, "displayName", PyNone),
     AccountEnabled    |-> DictGet(user, "accountEnabled", PyNone),
     AssignedLicenses  |-> PyStr(LicenseString(LicenseSkus(user)))]

\* BuildRecords skipping the elements that lack a selected field
BuildRecordsStrict(value) ==
    LET complete == SelectSeq(value, LAMBDA u :
                        /\ u.userPrincipalName.t # "absent"
                        /\ u.displayName.t # "absent"
                        /\ u.accountEnabled.t # "absent"
                        /\ u.assignedLicenses.t # "absent")
    IN  [i \in 1..Len(complete) |-> BuildRecord(complete[i])]

\* the records the for loop appends for one page, in order
BuildRecords(value) == [i \in 1..Len(value) |-> BuildRecord(value[i])]

\* AppendRecords leaving out the records already in the list
RECURSIVE AppendNew(_, _)
AppendNew(acc, recs) ==
    IF recs = <<>> THEN acc
    ELSE AppendNew(IF \E i \in 1..Len(acc) : acc[i] = recs[1] THEN acc
                   ELSE Append(acc, recs[1]),
                   Tail(recs))

AppendRecordsDedup(acc, value) == AppendNew(acc, BuildRecords(value))

\* users after the for loop over one page's `value`
AppendRecords(acc, value) == acc \o BuildRecords(value)

\* NextUrl never following the cursor
NextUrlNone(data) == PyNone

\* data.get("@odata.nextLink", None)
NextUrl(data) == DictGet(data, "nextLink", PyNone)

----------------------------------------------------------------------------
\* get_access_token

\* HasAccessToken accepting every response
HasAccessTokenAlways(token_result) == TRUE

\* "access_token" in token_result
HasAccessToken(token_result) == token_result.access_token.t # "absent"

\* f"{token_result}" for a response without a token
DictRepr(token_result) == <<"{'error': '">> \o token_result.error.v \o <<"'}">>

----------------------------------------------------------------------------
\* export_to_csv: csv.DictWriter with the default (excel) dialect

FIELDNAMES ==
    << <<"UserPrincipalName">>, <<"DisplayName">>, <<"AccountEnabled">>,
       <<"AssignedLicenses">> >>

\* the row's values in fieldnames order (DictWriter._dict_to_list)
DictToList(rec) ==
    <<rec.UserPrincipalName, rec.DisplayName, rec.AccountEnabled,
      rec.AssignedLicenses>>

\* the text the writer emits for a value: None as "", a string as is, any
\* other value as str(value)
CsvStr(val) ==
    CASE val.t = "none" -> <<>>
      [] val.t = "str"  -> val.v
      [] val.t = "bool" -> IF val.v = <<"1">> THEN <<"True">> ELSE <<"False">>

\* NeedsQuote looking for the delimiter only
NeedsQuoteDelimiterOnly(s) == \E i \in 1..Len(s) : s[i] = ","

\* QUOTE_MINIMAL: the delimiter, the quote character or a line-terminator
\* character in the field
NeedsQuote(s) == \E i \in 1..Len(s) : s[i] \in {",", "\"", "\r", "\n"}

\* doublequote: each quote character of the field is written twice
RECURSIVE DoubleQuotes(_)
DoubleQuotes(s) ==
    IF s = <<>> THEN <<>>
    ELSE (IF s[1] = "\"" THEN <<"\"", "\"">> ELSE <<s[1]>>)
         \o DoubleQuotes(Tail(s))

WriteField(s) ==
    IF NeedsQuote(s) THEN <<"\"">> \o DoubleQuotes(s) \o <<"\"">> ELSE s

\* writer.writerow: the fields joined by the delimiter, then "\r\n"
WriteRow(fields) ==
    Join(<<",">>, [i \in 1..Len(fields) |-> WriteField(fields[i])])
    \o <<"\r", "\n">>

\* writer.writerows(users)
RECURSIVE WriteRows(_)
WriteRows(recs) ==
    IF recs = <<>> THEN <<>>
    ELSE LET cells == DictToList(recs[1])
         IN  WriteRow([i \in 1..Len(cells) |-> CsvStr(cells[i])])
             \o WriteRows(Tail(recs))

\* OpenForWrite as open(output_file, "a")
OpenForAppend(f) == f.text

\* what open(output_file, "w") leaves of the file's previous text
OpenForWrite(f) == <<>>

\* the file after export_to_csv
WriteCsv(f, recs) ==
    [exists |-> TRUE,
     text   |-> OpenForWrite(f) \o WriteRow(FIELDNAMES) \o WriteRows(recs)]

----------------------------------------------------------------------------
\* csv.reader with the default dialect over a file opened with newline=""

ReaderStart ==
    [st |-> "start_record", field |-> <<>>, row |-> <<>>, rows |-> <<>>]

SaveField(s, st) ==
    [s EXCEPT !.st = st, !.field = <<>>, !.row = Append(s.row, s.field)]

AddChar(s, c, st) == [s EXCEPT !.st = st, !.field = Append(s.field, c)]

\* one character through the reader's state machine
ReaderChar(s, c) ==
    LET nl == c \in {"\r", "\n"}
    IN  CASE s.st = "start_record" /\ nl -> [s EXCEPT !.st = "eat_crnl"]
          [] s.st \in {"start_record", "start_field"} /\ ~nl ->
                IF c = "\"" THEN [s EXCEPT !.st = "in_quoted"]
                ELSE IF c = "," THEN SaveField(s, "start_field")
                ELSE AddChar(s, c, "in_field")
          [] s.st = "start_field" /\ nl -> SaveField(s, "eat_crnl")
          [] s.st = "in_field" ->
                IF nl THEN SaveField(s, "eat_crnl")
                ELSE IF c = "," THEN SaveField(s, "start_field")
                ELSE AddChar(s, c, "in_field")
          [] s.st = "in_quoted" ->
                IF c = "\"" THEN [s EXCEPT !.st = "quote_in_quoted"]
                ELSE AddChar(s, c, "in_quoted")
          [] s.st = "quote_in_quoted" ->
                IF c = "\"" THEN AddChar(s, c, "in_quoted")
                ELSE IF c = "," THEN SaveField(s, "start_field")
                ELSE IF nl THEN SaveField(s, "eat_crnl")
                ELSE AddChar(s, c, "in_field")
          [] s.st = "eat_crnl" -> s

\* the end of a line through the reader's state machine
ReaderEol(s) ==
    CASE s.st \in {"start_field", "in_field", "quote_in_quoted"} ->
            SaveField(s, "start_record")
      [] s.st = "eat_crnl" -> [s EXCEPT !.st = "start_record"]
      [] OTHER -> s

\* a line of the file ends after "\n", after a "\r" that no "\n" follows,
\* and at the end of the text
IsLineEnd(text, i) ==
    \/ i = Len(text)
    \/ text[i] = "\n"
    \/ text[i] = "\r" /\ text[i + 1] # "\n"

\* the reader after character i: a row is yielded when a line's end leaves
\* the reader at the start of a record
ReaderStep(s, text, i) ==
    LET s1 == ReaderChar(s, text[i])
        s2 == IF IsLineEnd(text, i) THEN ReaderEol(s1) ELSE s1
    IN  IF IsLineEnd(text, i) /\ s2.st = "start_record"
        THEN [st |-> "start_record", field |-> <<>>, row |-> <<>>,
              rows |-> Append(s2.rows, s2.row)]
        ELSE s2

\* the reader after characters lo..hi (st is never ""; testing it evaluates
\* each half before the next one starts, which keeps the evaluation shallow)
RECURSIVE ReaderRun(_, _, _, _)
ReaderRun(s, text, lo, hi) ==
    IF lo > hi \/ s.st = "" THEN s
    ELSE IF lo = hi THEN ReaderStep(s, text, lo)
    ELSE LET mid == (lo + hi) \div 2
             left == ReaderRun(s, text, lo, mid)
         IN  IF left.st = "" THEN left ELSE ReaderRun(left, text, mid + 1, hi)

\* the rows yielded at the end of the text: a record left open is yielded
\* if it holds anything
ReaderRows(s) ==
    IF s.st # "start_record" /\ (s.field # <<>> \/ s.st = "in_quoted")
    THEN Append(s.rows, Append(s.row, s.field))
    ELSE s.rows

\* list(csv.reader(f))
ReadCsv(text) == ReaderRows(ReaderRun(ReaderStart, text, 1, Len(text)))

----------------------------------------------------------------------------
\* The environment: the identity provider, the collection endpoint, the disk

\* Token responses: two with an access_token, two without.
TokenResults ==
    {[access_token |-> PyStr(<<tok>>), error |-> Absent] :
        tok \in {"tokenA", "tokenB"}}
    \cup {[access_token |-> Absent, error |-> PyStr(<<e>>)] :
        e \in {"invalid_client", "unauthorized_client"}}

NoTokenResult == [access_token |-> Absent, error |-> Absent]

License(sku) == [skuId |-> sku]

\* A user with every selected field, and one with none of them.
JaneDoe ==
    [userPrincipalName |-> PyStr(<<"jane@contoso">>),
     displayName       |-> PyStr(<<"Doe", ",", " ", "Jane">>),
     accountEnabled    |-> PyBool(TRUE),
     assignedLicenses  |-> PyList(<<License(<<"A">>), License(<<"B">>)>>)]

BareUser ==
    [userPrincipalName |-> Absent, displayName |-> Absent,
     accountEnabled |-> Absent, assignedLicenses |-> Absent]

PageUsers == {JaneDoe, BareUser}

\* The sequences over S of length at most n.
SeqsUpTo(S, n) == UNION {[1..k -> S] : k \in 0..n}

\* `value` of a page: absent, or an array of at most MaxPerPage users.
PageValues == {Absent} \cup {PyList(l) : l \in SeqsUpTo(PageUsers, MaxPerPage)}

\* "@odata.nextLink" of a page: absent, null or "", or a URL.
NoCursors == {Absent, PyNone, PyStr(<<>>)}

Cursors == {PyStr(<<"nextLink1">>)}

\* The 200 responses with a `value` of values and a cursor of cursors; the
\* last page of the longest chain carries no cursor.
OkPages(values, cursors, last) ==
    {[status |-> 200, text |-> <<"json">>,
      data |-> [value |-> v, nextLink |-> c]] :
        v \in values, c \in IF last THEN NoCursors ELSE NoCursors \cup cursors}

\* Other responses: a 201 and a 299 with a page body, 403 and 500 with an
\* error text.
OtherPages ==
    {[status |-> st, text |-> <<"json">>,
      data |-> [value |-> PyList(<<JaneDoe>>), nextLink |-> Absent]] :
        st \in {201, 299}}
    \cup {[status |-> st, text |-> <<t>>,
           data |-> [value |-> Absent, nextLink |-> Absent]] :
        st \in {403, 500}, t \in {"Forbidden", "Unavailable"}}

Pages(last) == OkPages(PageValues, Cursors, last) \cup OtherPages

\* The output file before the run: none, or one with content.
PriorFiles ==
    {[exists |-> FALSE, text |-> <<>>],
     [exists |-> TRUE, text |-> <<"old", ",", "report", "\r", "\n">>]}

NoError == [raised |-> FALSE, prefix |-> "", payload |-> <<>>]

Raised(prefix, payload) ==
    [raised |-> TRUE, prefix |-> prefix, payload |-> payload]

\* PcAfterRaise with the exception caught and the run continuing to export
PcAfterRaiseCaught == "export"

\* where main is after a callee raised: nothing catches it
PcAfterRaise == "failed"

----------------------------------------------------------------------------
\* Actions

Init ==
    /\ pc = "auth"
    /\ tokenResult = NoTokenResult
    /\ tokenCalls = 0
    /\ token = PyNone
    /\ url = PyNone
    /\ users = <<>>
    /\ requests = <<>>
    /\ served = <<>>
    /\ file \in PriorFiles
    /\ priorFile = file
    /\ error = NoError
    /\ exportCalls = 0

\* main line 84, get_access_token returning the token
GetAccessTokenOk(r) ==
    /\ pc = "auth"
    /\ HasAccessToken(r)
    /\ tokenResult' = r
    /\ tokenCalls' = tokenCalls + 1
    /\ token' = r.access_token
    /\ pc' = "fetch"
    /\ UNCHANGED <<url, users, requests, served, file, priorFile, error,
                   exportCalls>>

\* main line 84, get_access_token raising
GetAccessTokenFail(r) ==
    /\ pc = "auth"
    /\ ~HasAccessToken(r)
    /\ tokenResult' = r
    /\ tokenCalls' = tokenCalls + 1
    /\ error' = Raised("Failed to acquire token: ", DictRepr(r))
    /\ pc' = PcAfterRaise
    /\ UNCHANGED <<token, url, users, requests, served, file, priorFile,
                   exportCalls>>

\* main line 87 calling the fetcher, and its lines 40-43
FetchBegin ==
    /\ pc = "fetch"
    /\ users' = <<>>
    /\ url' = StartUrl
    /\ pc' = "loop"
    /\ UNCHANGED <<tokenResult, tokenCalls, token, requests, served, file,
                   priorFile, error, exportCalls>>

\* one iteration of `while url:` in which the server answers with page
LoopGet(page) ==
    /\ pc = "loop"
    /\ Truthy(url)
    /\ requests' = Append(requests, [url |-> url, headers |-> Headers(token.v)])
    /\ served' = Append(served, page)
    /\ IF IsApiFailure(page.status)
       THEN /\ error' = Raised("Graph API error: ", page.text)
            /\ pc' = PcAfterRaise
            /\ UNCHANGED <<users, url>>
       ELSE /\ users' = AppendRecords(users,
                            DictGet(page.data, "value", PyList(<<>>)).v)
            /\ url' = NextUrl(page.data)
            /\ UNCHANGED <<pc, error>>
    /\ UNCHANGED <<tokenResult, tokenCalls, token, file, priorFile,
                   exportCalls>>

\* `while url:` finding url falsy: the fetcher returns users
LoopExit ==
    /\ pc = "loop"
    /\ ~Truthy(url)
    /\ pc' = "export"
    /\ UNCHANGED <<tokenResult, tokenCalls, token, url, users, requests,
                   served, file, priorFile, error, exportCalls>>

\* main line 90, export_to_csv writing the file
ExportOk ==
    /\ pc = "export"
    /\ exportCalls' = exportCalls + 1
    /\ file' = WriteCsv(file, users)
    /\ pc' = "done"
    /\ UNCHANGED <<tokenResult, tokenCalls, token, url, users, requests,
                   served, priorFile, error>>

\* main line 90, open() failing
ExportIOError ==
    /\ pc = "export"
    /\ exportCalls' = exportCalls + 1
    /\ error' = Raised("IOError", <<>>)
    /\ pc' = PcAfterRaise
    /\ UNCHANGED <<tokenResult, tokenCalls, token, url, users, requests,
                   served, file, priorFile>>

Next ==
    \/ \E r \in TokenResults : GetAccessTokenOk(r)
    \/ \E r \in TokenResults : GetAccessTokenFail(r)
    \/ FetchBegin
    \/ \E page \in Pages(Len(served) + 1 >= MaxPages) : LoopGet(page)
    \/ LoopExit
    \/ ExportOk
    \/ ExportIOError

Spec == Init /\ [][Next]_vars

----------------------------------------------------------------------------
\* The pagination loop on its own input domain: pages of at most one user,
\* cursors drawn from two URLs.  The process runs until it exits: a step is
\* taken while one is possible.

LoopValues == {Absent, PyList(<<>>), PyList(<<JaneDoe>>)}

LoopCursors == {PyStr(<<"nextLink1">>), PyStr(<<"nextLink2">>)}

LoopPages(last) == OkPages(LoopValues, LoopCursors, last) \cup OtherPages

NextLoop ==
    \/ \E r \in TokenResults : GetAccessTokenOk(r)
    \/ \E r \in TokenResults : GetAccessTokenFail(r)
    \/ FetchBegin
    \/ \E page \in LoopPages(Len(served) + 1 >= MaxPages) : LoopGet(page)
    \/ LoopExit
    \/ ExportOk
    \/ ExportIOError

FairSpec == Init /\ [][NextLoop]_vars /\ WF_vars(NextLoop)

----------------------------------------------------------------------------
\* A second input domain, for the record and CSV functions: one page whose
\* first user ranges over many field shapes, optionally followed by a
\* second page.

ShapeNames ==
    {Absent, PyNone, PyStr(<<>>), PyStr(<<"Ann">>),
     PyStr(<<"Doe", ",", " ", "Jane">>), PyStr(<<",">>), PyStr(<<"\"">>),
     PyStr(<<"x", "\"", "y">>), PyStr(<<"\"", "q", "\"">>),
     PyStr(<<"l1", "\n", "l2">>), PyStr(<<"a", "\r", "\n", "b">>),
     PyStr(<<" ", "pad">>)}

ShapeLicenses ==
    {Absent, PyList(<<>>), PyList(<<License(<<"A">>)>>),
     PyList(<<License(<<"A">>), License(<<"B">>)>>),
     PyList(<<License(<<>>)>>),
     PyList(<<License(<<>>), License(<<>>)>>),
     PyList(<<License(<<"A">>), License(<<>>)>>),
     PyList(<<License(<<"A">>), License(<<"B">>), License(<<"A">>)>>)}

ShapeUsers ==
    {[userPrincipalName |-> u, displayName |-> d, accountEnabled |-> e,
      assignedLicenses |-> l] :
        u \in {Absent, PyStr(<<"ann@contoso">>)}, d \in ShapeNames,
        e \in {Absent, PyNone, PyBool(TRUE), PyBool(FALSE)},
        l \in ShapeLicenses}

ShapePages(n) ==
    IF n = 0
    THEN {[status |-> 200, text |-> <<"json">>,
           data |-> [value |-> PyList(v), nextLink |-> c]] :
             v \in {<<u>> : u \in ShapeUsers}
                   \cup {<<u, JaneDoe>> : u \in ShapeUsers},
             c \in {Absent, PyStr(<<"nextLink1">>)}}
    ELSE {[status |-> 200, text |-> <<"json">>,
           data |-> [value |-> PyList(<<BareUser>>), nextLink |-> Absent]]}

NextRecords ==
    \/ \E r \in TokenResults : GetAccessTokenOk(r)
    \/ FetchBegin
    \/ \E page \in ShapePages(Len(served)) : LoopGet(page)
    \/ LoopExit
    \/ ExportOk

SpecRecords == Init /\ [][NextRecords]_vars

----------------------------------------------------------------------------
\* Vocabulary of the properties

\* the `value` array of a page (empty when the page has none)
ValueOf(page) ==
    IF page.data.value.t = "absent" THEN <<>> ELSE page.data.value.v

\* the user elements of the 200 pages among pages, in delivery order
RECURSIVE Delivered(_)
Delivered(pages) ==
    IF pages = <<>> THEN <<>>
    ELSE LET n == Len(pages)
         IN  Delivered(SubSeq(pages, 1, n - 1))
             \o (IF pages[n].status = 200 THEN ValueOf(pages[n]) ELSE <<>>)

\* the sum of the lengths of the pages' `value` arrays
RECURSIVE TotalValues(_)
TotalValues(pages) ==
    IF pages = <<>> THEN 0
    ELSE Len(ValueOf(Head(pages))) + TotalValues(Tail(pages))

HasCursor(page) ==
    page.data.nextLink.t = "str" /\ Len(page.data.nextLink.v) > 0

ApiErrorRaised == error.raised /\ error.prefix = "Graph API error: "

\* the fetcher has returned and the exporter has not yet run
FetchReturned == pc = "export"

\* C1: when the fetcher returns, it has issued one GET per page of the
\* chain (every page but the last carried a cursor, the last did not), and
\* its result is the concatenation of the pages' value arrays, one record per
\* element, in delivery order, duplicates kept; its length is the sum of the
\* value lengths.
C1_FetchReturnsConcatenation ==
    FetchReturned =>
        LET n == Len(served)
            d == Delivered(served)
        IN  /\ n >= 1
            /\ Len(requests) = n
            /\ \A i \in 1..n : served[i].status = 200
            /\ \A i \in 1..(n - 1) : HasCursor(served[i])
            /\ ~HasCursor(served[n])
            /\ Len(users) = TotalValues(served)
            /\ Len(users) = Len(d)
            /\ \A k \in 1..Len(d) : users[k] = BuildRecord(d[k])

C1_Witness ==
    /\ FetchReturned
    /\ Len(served) = 2
    /\ ValueOf(served[1]) = <<JaneDoe, JaneDoe>>
    /\ ValueOf(served[2]) = <<BareUser, JaneDoe>>
    /\ served[2].data.nextLink = Absent
    /\ Len(users) = 4

\* C2: once a page request has failed, the exporter is never invoked, the
\* output file is as the run found it, and the records accumulated before
\* the failure are not exported.
C2_NoExportAfterFetchFailure ==
    (\E i \in 1..Len(served) : served[i].status # 200) =>
        /\ exportCalls = 0
        /\ file = priorFile
        /\ pc = "failed"

C2_Witness ==
    /\ Len(served) = 2
    /\ served[2].status = 403
    /\ users # <<>>
    /\ priorFile.exists
    /\ pc = "failed"

\* C3: a token response without access_token makes get_access_token raise,
\* with the provider's response in the message, after one attempt; no GET
\* is issued and no file is written.
C3_NoTokenNoFetch ==
    (tokenCalls > 0 /\ tokenResult.access_token = Absent) =>
        /\ error.raised
        /\ error.prefix = "Failed to acquire token: "
        /\ error.payload = <<"{'error': '">> \o tokenResult.error.v \o <<"'}">>
        /\ tokenCalls = 1
        /\ requests = <<>>
        /\ exportCalls = 0
        /\ file = priorFile
        /\ pc = "failed"

C3_Witness ==
    /\ pc = "failed"
    /\ tokenResult.error = PyStr(<<"invalid_client">>)
    /\ tokenCalls = 1
    /\ priorFile.exists

\* the run ended with the API error raised for the i-th response
FailedAt(i) == ApiErrorRaised /\ i = Len(served)

\* C4 as stated: a response fails the fetch exactly when its status is
\* outside 200..299.
C4_Original ==
    \A i \in 1..Len(served) :
        FailedAt(i) <=> ~(served[i].status \in 200..299)

\* C4 amended: a response fails the fetch exactly when its status is not
\* 200 (a 201 or 299 fails too); the error carries the response body
\* verbatim, and no request follows the failing response.
C4_FailsUnlessStatus200 ==
    \A i \in 1..Len(served) :
        /\ FailedAt(i) <=> served[i].status # 200
        /\ served[i].status # 200 =>
              /\ error.payload = served[i].text
              /\ Len(requests) = i
              /\ pc = "failed"
        /\ (served[i].status = 200 /\ pc = "loop") => ~error.raised

C4_Witness ==
    /\ Len(served) = 2
    /\ served[1].status = 200
    /\ served[2].status = 201
    /\ ApiErrorRaised
    /\ error.payload = <<"json">>

\* C8: one token exchange per run, no GET before it returned a token, every
\* GET carries that token, and the exporter runs only after the fetch loop
\* finished with the complete result.
C8_AuthenticateFetchExport ==
    /\ tokenCalls <= 1
    /\ exportCalls <= 1
    /\ pc # "auth" => tokenCalls = 1
    /\ requests # <<>> =>
          /\ tokenResult.access_token.t = "str"
          /\ \A i \in 1..Len(requests) :
                requests[i].headers.Authorization
                    = <<"Bearer", " ">> \o tokenResult.access_token.v
    /\ exportCalls > 0 =>
          /\ requests # <<>>
          /\ Len(served) = Len(requests)
          /\ \A i \in 1..Len(served) : served[i].status = 200
          /\ ~HasCursor(served[Len(served)])
          /\ Len(users) = Len(Delivered(served))
          /\ pc \in {"done", "failed"}

C8_Witness ==
    /\ pc = "done"
    /\ Len(requests) = 2
    /\ tokenResult.access_token = PyStr(<<"tokenB">>)
    /\ requests[2].headers.Authorization = <<"Bearer", " ", "tokenB">>

\* the skuIds of a user's license entries joined with ", ", built left to
\* right (empty for an absent or empty array)
RECURSIVE JoinedSkus(_)
JoinedSkus(lics) ==
    IF lics = <<>> THEN <<>>
    ELSE IF Len(lics) = 1 THEN lics[1].skuId
    ELSE JoinedSkus(SubSeq(lics, 1, Len(lics) - 1))
         \o <<",", " ">> \o lics[Len(lics)].skuId

LicensesOf(user) ==
    IF user.assignedLicenses.t = "absent" THEN <<>>
    ELSE user.assignedLicenses.v

\* C5 as stated: AssignedLicenses is the joined skuIds, and "None" whenever
\* the joined result is empty.
C5_Original ==
    LET d == Delivered(served)
    IN  Len(users) = Len(d) /\
        \A k \in 1..Len(d) :
            users[k].AssignedLicenses =
                PyStr(IF JoinedSkus(LicensesOf(d[k])) = <<>> THEN <<"None">>
                      ELSE JoinedSkus(LicensesOf(d[k])))

\* C5 amended: AssignedLicenses is the skuIds joined with ", " in entry
\* order, and "None" exactly when the array is empty or absent; a non-empty
\* array whose joined skuIds are the empty string yields the empty string.
C5_NoneIffNoEntries ==
    LET d == Delivered(served)
    IN  Len(users) = Len(d) /\
        \A k \in 1..Len(d) :
            users[k].AssignedLicenses =
                PyStr(IF LicensesOf(d[k]) = <<>> THEN <<"None">>
                      ELSE JoinedSkus(LicensesOf(d[k])))

C5_Witness ==
    /\ pc = "done"
    /\ Len(users) = 2
    /\ served[1].data.value.v[1].assignedLicenses = PyList(<<License(<<>>)>>)
    /\ users[1].AssignedLicenses = PyStr(<<>>)
    /\ users[2].AssignedLicenses = PyStr(<<"A", ",", " ", "B">>)

\* the four values of a record, in column order
Columns(rec) ==
    <<rec.UserPrincipalName, rec.DisplayName, rec.AccountEnabled,
      rec.AssignedLicenses>>

\* the text a CSV reader can return for a value: the string itself, ""
\* for the null marker, "True"/"False" for a boolean
CellText(val) ==
    IF val.t = "str" THEN val.v
    ELSE IF val.t = "none" THEN <<>>
    ELSE IF val = PyBool(TRUE) THEN <<"True">> ELSE <<"False">>

\* C6 as stated: re-parsing the exported file reproduces exactly the four
\* values of every record as the fetcher supplied them, in order.
C6_Original ==
    pc = "done" =>
        LET rows == ReadCsv(file.text)
        IN  /\ Len(rows) = Len(users) + 1
            /\ \A i \in 1..Len(users) :
                  /\ Len(rows[i + 1]) = 4
                  /\ \A c \in 1..4 : PyStr(rows[i + 1][c]) = Columns(users[i])[c]

\* C6 amended: re-parsing the exported file reproduces, in order, every
\* string value exactly (commas, quotes and line breaks included), the null
\* marker as the empty string and a boolean as "True" or "False".
C6_RoundTripAsText ==
    pc = "done" =>
        LET rows == ReadCsv(file.text)
        IN  /\ Len(rows) = Len(users) + 1
            /\ \A i \in 1..Len(users) :
                  /\ Len(rows[i + 1]) = 4
                  /\ \A c \in 1..4 : rows[i + 1][c] = CellText(Columns(users[i])[c])

C6_Witness ==
    /\ pc = "done"
    /\ Len(users) = 2
    /\ users[1].DisplayName = PyStr(<<"\"", "q", "\"">>)
    /\ users[1].UserPrincipalName = PyNone
    /\ users[1].AccountEnabled = PyBool(FALSE)
    /\ users[2].DisplayName = PyStr(<<"Doe", ",", " ", "Jane">>)
    /\ ReadCsv(file.text)[2][2] = <<"\"", "q", "\"">>

\* C7: after a successful export the file is the header line followed by
\* one row per record, in order, and nothing of its previous content; the
\* number of data rows is the number of fetched users.
C7_FileIsHeaderAndRows ==
    pc = "done" =>
        LET rows == ReadCsv(file.text)
            d == Delivered(served)
        IN  /\ file.exists
            /\ SubSeq(file.text, 1, 9)
                  = <<"UserPrincipalName", ",", "DisplayName", ",",
                      "AccountEnabled", ",", "AssignedLicenses", "\r", "\n">>
            /\ rows[1] = <<<<"UserPrincipalName">>, <<"DisplayName">>,
                           <<"AccountEnabled">>, <<"AssignedLicenses">>>>
            /\ Len(rows) = 1 + Len(users)
            /\ Len(users) = Len(d)
            /\ \A i \in 1..Len(users) :
                  /\ Len(rows[i + 1]) = 4
                  /\ rows[i + 1][1] = CellText(users[i].UserPrincipalName)
                  /\ rows[i + 1][4] = CellText(users[i].AssignedLicenses)

C7_Witness ==
    /\ pc = "done"
    /\ priorFile.exists
    /\ Len(users) = 3
    /\ Len(ReadCsv(file.text)) = 4

\* C9 as stated: the loop is DONE exactly when the last parsed page has no
\* @odata.nextLink field.
C9_Original ==
    FetchReturned => served[Len(served)].data.nextLink = Absent

\* the first request targets the starting endpoint, each later one the
\* cursor of the page before it; the loop is DONE only after a page whose
\* cursor is absent, null or empty
C9_Safety ==
    /\ requests # <<>> => requests[1].url = StartUrl
    /\ \A i \in 1..(Len(requests) - 1) :
          /\ HasCursor(served[i])
          /\ requests[i + 1].url = served[i].data.nextLink
    /\ FetchReturned =>
          /\ served # <<>>
          /\ served[Len(served)].data.nextLink \in {Absent, PyNone, PyStr(<<>>)}
    /\ (pc = "loop" /\ served # <<>> /\ HasCursor(served[Len(served)])) =>
          /\ Len(requests) = Len(served)
          /\ url = served[Len(served)].data.nextLink

\* C9 amended: the first request targets the starting endpoint, each later
\* request the cursor of the page before it; the loop moves to DONE exactly
\* when a parsed page's @odata.nextLink is absent, null or the empty string;
\* a non-empty cursor is always followed by another request; the fetch
\* eventually returns or fails.
C9_LoopFollowsCursors ==
    /\ []C9_Safety
    /\ \A c \in LoopCursors :
          (pc = "loop" /\ url = c) ~> (\E i \in 1..Len(requests) : requests[i].url = c)
    /\ (pc = "loop") ~> (pc \in {"export", "failed"})

C9_Witness ==
    /\ FetchReturned
    /\ Len(requests) = 2
    /\ requests[2].url = PyStr(<<"nextLink2">>)
    /\ served[2].data.nextLink = PyStr(<<>>)

====
